---- MODULE Spec2Model ----
(***************************************************************************)
(* HelpOn API (api/main.py): the emergency incident lifecycle.             *)
(*                                                                         *)
(* The store (MongoDB collections users, emergencies, notifications) is    *)
(* shared by concurrent request handlers.  Every awaited store call of a   *)
(* handler is one atomic step; the Python between two awaits belongs to    *)
(* the step of the await that precedes it.                                 *)
(***************************************************************************)
EXTENDS Integers, Sequences, FiniteSets, TLC

\* ---------------------------------------------------------------- bounds
MaxEmergencies == 2     \* emergencies ever inserted
MaxCalls == 4           \* requests ever received
NumHandlers == 2        \* request handlers that can be in flight together
MaxNotificationId == 3  \* notification ids a caller may send
MaxInbox == 51          \* emergencies in the largest store get_inbox reads
MaxNearby == 102        \* emergencies in the largest store of get_nearby

\* ------------------------------------------------------------- constants
UserOrder == <<"A", "B", "C">>    \* the users collection, in natural order
Users == {UserOrder[i] : i \in 1..Len(UserOrder)}    \* their _id values
NoUser == "none"                  \* Python None for an absent helper_id
Handlers == 1..NumHandlers
EmergencyIds == 1..MaxEmergencies \* the ObjectId values a caller may send
NotificationIds == 1..MaxNotificationId
HistoryLimit == 50                \* to_list(length=50) in get_history
InboxLimit == 50                  \* to_list(length=50) in get_inbox
NearbyLimit == 100                \* to_list(length=100) in get_nearby_emergencies

FullName(u) == "name_" \o u       \* users.full_name of user u

VARIABLES
  users,          \* users collection: _id -> [points, helps_given]
  emergencies,    \* emergencies collection, in insertion order (_id = index)
  notifications,  \* notifications collection, in insertion order
  pc,             \* per handler: the await it is suspended at
  current_user,   \* per handler: Depends(get_current_user)
  emergency_id,   \* per handler: path parameter
  emergency,      \* per handler: result of find_one in complete_emergency,
                  \*   entries of requests in get_history, user_dict in
                  \*   register_user
  users_cursor,   \* per handler: users_cursor of create_emergency
  effect,         \* per handler: what the running request has awarded so far
  returned,       \* the request that returned in the last step, if one did
  body,           \* the list that request returned, if it returned one
  bearer,         \* per worker: the token of a request not yet authenticated
  calls,          \* requests received so far
  accepts,        \* history: per emergency, the accept_emergency that succeeded
  rewards         \* history: per emergency, what was awarded on its account

store == <<users, emergencies, notifications>>
history == <<accepts, rewards>>
vars == <<users, emergencies, notifications, pc, current_user, emergency_id,
          emergency, users_cursor, effect, returned, body, bearer, calls,
          accepts, rewards>>

\* ------------------------------------------------------ pure definitions
\* faulty query: every user, the requester included
OtherUsersAll(u) == UserOrder

\* users_collection.find({"_id": {"$ne": current_user["_id"]}})
OtherUsers(u) == SelectSeq(UserOrder, LAMBDA x : x # u)

\* the document create_emergency inserts
NewEmergency(u) ==
  [created_by |-> u, created_name |-> FullName(u), status |-> "active",
   helper_id |-> NoUser, helper_name |-> ""]

\* a notification document
Notification(u, type) == [user_id |-> u, type |-> type, is_read |-> FALSE]

\* faulty filters: the _id alone; "not yet accepted"; "not yet resolved"
AcceptFilterAny(e) == TRUE

AcceptFilterNotAccepted(e) == e.status # "accepted"

AcceptFilterNotResolved(e) == e.status # "resolved"

\* filter of accept_emergency's update_one, the _id apart
AcceptFilter(e) == e.status = "active"

\* $set of accept_emergency's update_one
AcceptSet(e, u) ==
  [e EXCEPT !.status = "accepted", !.helper_id = u, !.helper_name = FullName(u)]

\* faulty test: the helper, not the requester, may complete
IsHelper(e, u) == e.helper_id = u

\* the authorization test of complete_emergency
IsRequester(e, u) == e.created_by = u

\* $set of complete_emergency's update_one
CompleteSet(e) == [e EXCEPT !.status = "resolved"]

\* faulty test: the reward step is never skipped
HasHelperAlways(e) == TRUE

\* "if helper_id:" on the document read by find_one
HasHelper(e) == e.helper_id # NoUser

\* faulty update: the points are taken away
RewardDec(usr) ==
  [usr EXCEPT !.points = @ - 20, !.helps_given = @ + 1]

\* faulty update: the points alone
RewardIncNoHelp(usr) == [usr EXCEPT !.points = @ + 20]

\* faulty increment: both counters by one
RewardIncOne(usr) ==
  [usr EXCEPT !.points = @ + 1, !.helps_given = @ + 1]

\* $inc of complete_emergency's update_one on the helper
RewardInc(usr) ==
  [usr EXCEPT !.points = @ + 20, !.helps_given = @ + 1]

\* emergencies_collection.find_one({"_id": id}): <<>> is None
FindOne(id) == IF id \in DOMAIN emergencies THEN <<emergencies[id]>> ELSE <<>>

NoEffect == [points |-> 0, helps_given |-> 0, reward |-> 0]
NoReturn ==
  [pc |-> "idle", current_user |-> NoUser, emergency_id |-> 0,
   emergency |-> <<>>, effect |-> NoEffect, response |-> "none"]

NoAccepts == [success |-> 0, winner |-> NoUser]

\* no request is waiting for get_current_user
NoToken == [sig |-> "none", type |-> "none", sub |-> "none"]

\* ------------------------------------------------------------------ Init
Init ==
  /\ users = [u \in Users |-> [points |-> 0, helps_given |-> 0]]
  /\ emergencies = <<>>
  /\ notifications = <<>>
  /\ pc = [p \in Handlers |-> "idle"]
  /\ current_user = [p \in Handlers |-> NoUser]
  /\ emergency_id = [p \in Handlers |-> 0]
  /\ emergency = [p \in Handlers |-> <<>>]
  /\ users_cursor = [p \in Handlers |-> <<>>]
  /\ effect = [p \in Handlers |-> NoEffect]
  /\ returned = NoReturn
  /\ body = <<>>
  /\ bearer = [p \in Handlers |-> NoToken]
  /\ calls = 0
  /\ accepts = <<>>
  /\ rewards = <<>>

\* -------------------------------------------------------------- requests
\* A request arrives at the first free worker.  get_current_user resolves its
\* bearer token to user u; that reads nothing a handler writes, so the step
\* is folded into the first store call of the handler.
Receive(p) ==
  /\ pc[p] = "idle"
  /\ \A q \in Handlers : q < p => pc[q] # "idle"
  /\ calls < MaxCalls
  /\ calls' = calls + 1

\* The handler suspends at the await named at, holding locals u, id, e, c, eff.
Await(p, at, u, id, e, c, eff) ==
  /\ pc' = [pc EXCEPT ![p] = at]
  /\ current_user' = [current_user EXCEPT ![p] = u]
  /\ emergency_id' = [emergency_id EXCEPT ![p] = id]
  /\ emergency' = [emergency EXCEPT ![p] = e]
  /\ users_cursor' = [users_cursor EXCEPT ![p] = c]
  /\ effect' = [effect EXCEPT ![p] = eff]
  /\ returned' = NoReturn
  /\ body' = <<>>
  /\ bearer' = [bearer EXCEPT ![p] = NoToken]

\* The handler returns r, and the list b, from its step named from: its
\* locals u, id, e, eff are gone and its response is out.
ReturnBody(p, from, u, id, e, eff, r, b) ==
  /\ pc' = [pc EXCEPT ![p] = "idle"]
  /\ current_user' = [current_user EXCEPT ![p] = NoUser]
  /\ emergency_id' = [emergency_id EXCEPT ![p] = 0]
  /\ emergency' = [emergency EXCEPT ![p] = <<>>]
  /\ users_cursor' = [users_cursor EXCEPT ![p] = <<>>]
  /\ effect' = [effect EXCEPT ![p] = NoEffect]
  /\ returned' = [pc |-> from, current_user |-> u, emergency_id |-> id,
                  emergency |-> e, effect |-> eff, response |-> r]
  /\ body' = b
  /\ bearer' = [bearer EXCEPT ![p] = NoToken]

\* The handler returns r and no list.
Return(p, from, u, id, e, eff, r) ==
  ReturnBody(p, from, u, id, e, eff, r, <<>>)

\* ------------------------------------------------------ create_emergency
\* emergencies_collection.insert_one(new_emergency), and the cursor is opened
CreateInsert(p, u) ==
  LET id == Len(emergencies) + 1
  IN /\ Receive(p)
     /\ Len(emergencies) < MaxEmergencies
     /\ emergencies' = Append(emergencies, NewEmergency(u))
     /\ accepts' = Append(accepts, NoAccepts)
     /\ rewards' = Append(rewards, NoEffect)
     /\ IF OtherUsers(u) = <<>>
          THEN Return(p, "create_insert", u, id, <<>>, NoEffect, "success")
          ELSE Await(p, "create_notify", u, id, <<>>, OtherUsers(u), NoEffect)
     /\ UNCHANGED <<users, notifications>>

\* one turn of the async for: notifications_collection.insert_one({...})
CreateNotify(p) ==
  /\ pc[p] = "create_notify"
  /\ notifications' =
       Append(notifications, Notification(Head(users_cursor[p]), "alert"))
  /\ IF Tail(users_cursor[p]) = <<>>
       THEN Return(p, "create_notify", current_user[p], emergency_id[p], <<>>,
                   NoEffect, "success")
       ELSE Await(p, "create_notify", current_user[p], emergency_id[p], <<>>,
                  Tail(users_cursor[p]), NoEffect)
  /\ UNCHANGED <<users, emergencies, calls, history>>

\* ------------------------------------------------------ accept_emergency
\* the conditional update_one and the test of modified_count
AcceptUpdate(p, u, id) ==
  LET matched == id \in DOMAIN emergencies /\ AcceptFilter(emergencies[id])
  IN /\ Receive(p)
     /\ IF matched
          THEN /\ emergencies' = [emergencies EXCEPT ![id] = AcceptSet(@, u)]
               /\ accepts' = [accepts EXCEPT ![id].success = @ + 1,
                                             ![id].winner = u]
               /\ Return(p, "accept_update", u, id, <<>>, NoEffect, "success")
          ELSE /\ UNCHANGED <<emergencies, accepts>>
               /\ Return(p, "accept_update", u, id, <<>>, NoEffect, "conflict")
     /\ UNCHANGED <<users, notifications, rewards>>

\* ---------------------------------------------------- complete_emergency
\* find_one, then the not-found and the requester tests
CompleteFind(p, u, id) ==
  LET found == FindOne(id)
  IN /\ Receive(p)
     /\ IF found = <<>>
          THEN Return(p, "complete_find", u, id, found, NoEffect, "not_found")
          ELSE IF ~ IsRequester(found[1], u)
                 THEN Return(p, "complete_find", u, id, found, NoEffect,
                             "forbidden")
                 ELSE Await(p, "complete_update", u, id, found, <<>>, NoEffect)
     /\ UNCHANGED <<store, history>>

\* update_one({"_id": id}, {"$set": {"status": "resolved"}}); helper_id is
\* then taken from the document read by find_one
CompleteUpdate(p) ==
  LET id == emergency_id[p]
  IN /\ pc[p] = "complete_update"
     /\ emergencies' = [emergencies EXCEPT ![id] = CompleteSet(@)]
     /\ IF HasHelper(emergency[p][1])
          THEN Await(p, "complete_inc", current_user[p], id, emergency[p],
                     <<>>, effect[p])
          ELSE Return(p, "complete_update", current_user[p], id, emergency[p],
                      effect[p], "success")
     /\ UNCHANGED <<users, notifications, calls, history>>

\* users_collection.update_one({"_id": helper_id}, {"$inc": {...}}); an _id
\* that matches no user modifies nothing
CompleteInc(p) ==
  LET helper_id == emergency[p][1].helper_id
      id == emergency_id[p]
      gain == IF helper_id \in Users
                THEN [points |-> users'[helper_id].points - users[helper_id].points,
                      helps_given |-> users'[helper_id].helps_given
                                        - users[helper_id].helps_given]
                ELSE [points |-> 0, helps_given |-> 0]
  IN /\ pc[p] = "complete_inc"
     /\ users' = IF helper_id \in Users
                    THEN [users EXCEPT ![helper_id] = RewardInc(@)]
                    ELSE users
     /\ rewards' = [rewards EXCEPT ![id].points = @ + gain.points,
                                   ![id].helps_given = @ + gain.helps_given]
     /\ Await(p, "complete_notify", current_user[p], id, emergency[p], <<>>,
              [effect[p] EXCEPT !.points = @ + gain.points,
                                !.helps_given = @ + gain.helps_given])
     /\ UNCHANGED <<emergencies, notifications, calls, accepts>>

\* notifications_collection.insert_one({... "type": "reward" ...})
CompleteNotify(p) ==
  LET helper_id == emergency[p][1].helper_id
      id == emergency_id[p]
  IN /\ pc[p] = "complete_notify"
     /\ notifications' = Append(notifications, Notification(helper_id, "reward"))
     /\ rewards' = [rewards EXCEPT ![id].reward = @ + 1]
     /\ Return(p, "complete_notify", current_user[p], id, emergency[p],
               [effect[p] EXCEPT !.reward = @ + 1], "success")
     /\ UNCHANGED <<users, emergencies, calls, accepts>>

\* ------------------------------------------------------------------ Next
Next ==
  \/ \E p \in Handlers, u \in Users : CreateInsert(p, u)
  \/ \E p \in Handlers : CreateNotify(p)
  \/ \E p \in Handlers, u \in Users, id \in EmergencyIds : AcceptUpdate(p, u, id)
  \/ \E p \in Handlers, u \in Users, id \in EmergencyIds : CompleteFind(p, u, id)
  \/ \E p \in Handlers : CompleteUpdate(p)
  \/ \E p \in Handlers : CompleteInc(p)
  \/ \E p \in Handlers : CompleteNotify(p)

Spec == Init /\ [][Next]_vars

TypeOK ==
  /\ calls \in 0..MaxCalls
  /\ Len(emergencies) <= MaxEmergencies

\* --------------------------------------------------------- read handlers
Min(a, b) == IF a <= b THEN a ELSE b

\* cursor.to_list(length=n)
Take(s, n) == SubSeq(s, 1, Min(n, Len(s)))

Reverse(s) == [i \in 1..Len(s) |-> s[Len(s) + 1 - i]]

\* doc.get(field): None when the document has no such field
Get(doc, field) == IF field \in DOMAIN doc THEN doc[field] ELSE NoUser

\* the _id values of a collection, in natural (insertion) order
Ids(collection) == [i \in 1..Len(collection) |-> i]

\* created_at of a document is taken just before its insert_one: documents
\* are in created_at order, and the _id stands for the timestamp
CreatedAt(id) == id

\* cursor.sort("created_at", -1) on ids in natural order
SortCreatedDesc(ids) == Reverse(ids)

\* find({"created_by": user_id}).sort("created_at", -1).to_list(length=50)
Requests(u) ==
  Take(SortCreatedDesc(SelectSeq(Ids(emergencies),
         LAMBDA i : Get(emergencies[i], "created_by") = u)), HistoryLimit)

\* find({"accepted_by": user_id}).sort("created_at", -1).to_list(length=50)
Responses(u) ==
  Take(SortCreatedDesc(SelectSeq(Ids(emergencies),
         LAMBDA i : Get(emergencies[i], "accepted_by") = u)), HistoryLimit)

\* the entry get_history appends for a request
RequestedEntry(i) ==
  [id |-> i, type |-> "requested", date |-> CreatedAt(i), points |-> 0,
   status |-> emergencies[i].status]

\* points_earned of get_history
PointsEarned(e) == IF Get(e, "status") = "completed" THEN 20 ELSE 0

\* the entry get_history appends for a response
RespondedEntry(i) ==
  [id |-> i, type |-> "responded", date |-> CreatedAt(i),
   points |-> PointsEarned(emergencies[i]), status |-> emergencies[i].status]

\* history.sort(key=date, reverse=True): stable, so entries of one date keep
\* their order
RECURSIVE InsertByDate(_, _)
InsertByDate(sorted, x) ==
  IF sorted = <<>> THEN <<x>>
  ELSE IF Head(sorted).date >= x.date
         THEN <<Head(sorted)>> \o InsertByDate(Tail(sorted), x)
         ELSE <<x>> \o sorted

RECURSIVE SortByDate(_)
SortByDate(s) ==
  IF s = <<>> THEN <<>>
  ELSE InsertByDate(SortByDate(SubSeq(s, 1, Len(s) - 1)), s[Len(s)])

\* get_history: requests = await requested_cursor.to_list(length=50)
GetHistoryRequests(p, u) ==
  LET requests == Requests(u)
  IN /\ Receive(p)
     /\ Await(p, "history_responses", u, 0,
              [k \in 1..Len(requests) |-> RequestedEntry(requests[k])],
              <<>>, NoEffect)
     /\ UNCHANGED <<store, history>>

\* get_history: responses = await responded_cursor.to_list(length=50), the
\* two loops and the sort
GetHistoryResponses(p) ==
  LET responses == Responses(current_user[p])
  IN /\ pc[p] = "history_responses"
     /\ ReturnBody(p, "get_history", current_user[p], 0, <<>>, NoEffect,
                   "success",
                   SortByDate(emergency[p] \o
                     [k \in 1..Len(responses) |-> RespondedEntry(responses[k])]))
     /\ UNCHANGED <<store, calls, history>>

\* faulty sort of get_inbox: oldest first
InboxSortOldest(ids) == ids

\* cursor.sort("created_at", -1) of get_inbox
InboxSort(ids) == SortCreatedDesc(ids)

\* find({"user_id": ...}).sort("created_at", -1).to_list(length=50), and the
\* entry built for each notification
Inbox(u) ==
  LET found == Take(InboxSort(SelectSeq(Ids(notifications),
                      LAMBDA i : notifications[i].user_id = u)), InboxLimit)
  IN [k \in 1..Len(found) |->
        [id |-> found[k], type |-> notifications[found[k]].type,
         is_read |-> notifications[found[k]].is_read,
         created_at |-> CreatedAt(found[k])]]

GetInbox(p, u) ==
  /\ Receive(p)
  /\ ReturnBody(p, "get_inbox", u, 0, <<>>, NoEffect, "success", Inbox(u))
  /\ UNCHANGED <<store, history>>

\* find({"status": "active"}).to_list(length=100), and the entry built for
\* each emergency
Nearby ==
  LET found == Take(SelectSeq(Ids(emergencies),
                      LAMBDA i : emergencies[i].status = "active"), NearbyLimit)
  IN [k \in 1..Len(found) |->
        [id |-> found[k], created_by |-> emergencies[found[k]].created_name,
         status |-> emergencies[found[k]].status,
         created_at |-> CreatedAt(found[k])]]

\* the count_documents that follows reads users.last_active alone and is
\* part of this step
GetNearby(p, u) ==
  /\ Receive(p)
  /\ ReturnBody(p, "get_nearby", u, 0, <<>>, NoEffect, "success", Nearby)
  /\ UNCHANGED <<store, history>>

\* faulty filter of read_notification: the _id alone
ReadFilterAny(n, u) == TRUE

\* filter of read_notification's update_one, the _id apart
ReadFilter(n, u) == n.user_id = u

\* read_notification: one update_one, and "Read" whatever it matched
ReadNotification(p, u, nid) ==
  /\ Receive(p)
  /\ notifications' =
       IF nid \in DOMAIN notifications /\ ReadFilter(notifications[nid], u)
         THEN [notifications EXCEPT ![nid].is_read = TRUE]
         ELSE notifications
  /\ Return(p, "read_notification", u, nid, <<>>, NoEffect, "success")
  /\ UNCHANGED <<users, emergencies, history>>

ReadNext ==
  \/ \E p \in Handlers, u \in Users : GetHistoryRequests(p, u)
  \/ \E p \in Handlers : GetHistoryResponses(p)
  \/ \E p \in Handlers, u \in Users : GetInbox(p, u)
  \/ \E p \in Handlers, u \in Users : GetNearby(p, u)
  \/ \E p \in Handlers, u \in Users, nid \in NotificationIds :
       ReadNotification(p, u, nid)

\* every handler of the emergency lifecycle, on an empty store
NextAll ==
  \/ Next
  \/ ReadNext

SpecAll == Init /\ [][NextAll]_vars

\* every handler of the emergency lifecycle, the requests coming from two
\* of the users
Actors == {UserOrder[1], UserOrder[2]}

NextActors ==
  \/ \E p \in Handlers, u \in Actors : CreateInsert(p, u)
  \/ \E p \in Handlers : CreateNotify(p)
  \/ \E p \in Handlers, u \in Actors, id \in EmergencyIds :
       AcceptUpdate(p, u, id)
  \/ \E p \in Handlers, u \in Actors, id \in EmergencyIds :
       CompleteFind(p, u, id)
  \/ \E p \in Handlers : CompleteUpdate(p)
  \/ \E p \in Handlers : CompleteInc(p)
  \/ \E p \in Handlers : CompleteNotify(p)
  \/ \E p \in Handlers, u \in Actors : GetHistoryRequests(p, u)
  \/ \E p \in Handlers : GetHistoryResponses(p)
  \/ \E p \in Handlers, u \in Actors : GetInbox(p, u)
  \/ \E p \in Handlers, u \in Actors : GetNearby(p, u)
  \/ \E p \in Handlers, u \in Actors, nid \in NotificationIds :
       ReadNotification(p, u, nid)

SpecActors == Init /\ [][NextActors]_vars

\* The store after k create_emergency requests of user c, one after the
\* other, and one accept_emergency of the second emergency by another user;
\* calls counts the requests received from then on.
BulkEmergencies(c, k) ==
  [i \in 1..k |-> IF i = 2 THEN AcceptSet(NewEmergency(c), Head(OtherUsers(c)))
                           ELSE NewEmergency(c)]

BulkNotifications(c, k) ==
  LET others == OtherUsers(c)
  IN [j \in 1..(k * Len(others)) |->
        Notification(others[((j - 1) % Len(others)) + 1], "alert")]

InitBulk(c, k) ==
  /\ users = [u \in Users |-> [points |-> 0, helps_given |-> 0]]
  /\ emergencies = BulkEmergencies(c, k)
  /\ notifications = BulkNotifications(c, k)
  /\ pc = [p \in Handlers |-> "idle"]
  /\ current_user = [p \in Handlers |-> NoUser]
  /\ emergency_id = [p \in Handlers |-> 0]
  /\ emergency = [p \in Handlers |-> <<>>]
  /\ users_cursor = [p \in Handlers |-> <<>>]
  /\ effect = [p \in Handlers |-> NoEffect]
  /\ returned = NoReturn
  /\ body = <<>>
  /\ bearer = [p \in Handlers |-> NoToken]
  /\ calls = 0
  /\ accepts = [i \in 1..k |-> IF i = 2
                   THEN [success |-> 1, winner |-> Head(OtherUsers(c))]
                   ELSE NoAccepts]
  /\ rewards = [i \in 1..k |-> NoEffect]

\* get_inbox and read_notification on stores around the limit of get_inbox
InboxSizes == {0, 1, 2, InboxLimit, MaxInbox}

InitInbox == \E c \in Users, k \in InboxSizes : InitBulk(c, k)

NextInbox ==
  \/ \E p \in Handlers, u \in Users : GetInbox(p, u)
  \/ \E p \in Handlers, u \in Users, nid \in NotificationIds :
       ReadNotification(p, u, nid)

SpecInbox == InitInbox /\ [][NextInbox]_vars

\* get_nearby_emergencies on stores around its limit
NearbySizes == {0, 2, NearbyLimit + 1, MaxNearby}

InitNearby == \E c \in Users, k \in NearbySizes : InitBulk(c, k)

NextNearby == \E p \in Handlers, u \in Users : GetNearby(p, u)

SpecNearby == InitNearby /\ [][NextNearby]_vars

\* -------------------------------------------------------- authentication
Phone(u) == "phone_" \o u         \* users.phone_number of user u
Email(u) == "mail_" \o u          \* users.email of user u

\* create_access_token and create_refresh_token under SECRET_KEY, not expired
AccessToken(sub) == [sig |-> "valid", type |-> "access", sub |-> sub]
RefreshToken(sub) == [sig |-> "valid", type |-> "refresh", sub |-> sub]

\* The Authorization headers a client may send: the access token of user A;
\* no header; a token signed with another key; an expired one; the refresh
\* token of A; an access token that has no sub; one of a user that is not
\* in the collection.
Tokens ==
  {AccessToken(Phone("A")),
   [sig |-> "absent", type |-> "none", sub |-> "none"],
   [sig |-> "forged", type |-> "access", sub |-> Phone("A")],
   [sig |-> "expired", type |-> "access", sub |-> Phone("A")],
   RefreshToken(Phone("A")),
   AccessToken("none"),
   AccessToken("phone_Z")}

\* faulty verify_token: the type of the token is not looked at
VerifyTokenAnyType(t) ==
  IF t.sig # "valid" THEN <<>> ELSE <<[type |-> t.type, sub |-> t.sub]>>

\* verify_token: jwt.decode raises PyJWTError on a bad signature or an
\* expired token (and OAuth2PasswordBearer answers 401 when there is no
\* header); <<>> is None
VerifyToken(t) ==
  IF t.sig # "valid" THEN <<>>
  ELSE IF t.type # "access" THEN <<>>
  ELSE <<[type |-> t.type, sub |-> t.sub]>>

\* users_collection.find_one({"$or": [{"email": ...}, {"phone_number": ...}]})
FindUser(username) ==
  LET found == {u \in Users : Email(u) = username \/ Phone(u) = username}
  IN IF found = {} THEN NoUser ELSE CHOOSE u \in found : TRUE

\* get_current_user: the user of the token, NoUser where it raises 401
GetCurrentUser(t) ==
  LET payload == VerifyToken(t)
  IN IF payload = <<>> THEN NoUser
     ELSE IF payload[1].sub = "none" THEN NoUser
     ELSE FindUser(payload[1].sub)

\* a request with Authorization header t arrives at the first free worker
Arrive(p, t) ==
  /\ pc[p] = "idle"
  /\ bearer[p] = NoToken
  /\ \A q \in Handlers : q < p => pc[q] # "idle"
  /\ calls < MaxCalls
  /\ bearer' = [bearer EXCEPT ![p] = t]
  /\ returned' = NoReturn
  /\ body' = <<>>
  /\ UNCHANGED <<store, pc, current_user, emergency_id, emergency,
                 users_cursor, effect, calls, history>>

\* get_current_user raises 401: the handler of the route is not entered
Unauthenticated(p) ==
  /\ bearer[p] # NoToken
  /\ GetCurrentUser(bearer[p]) = NoUser
  /\ Receive(p)
  /\ Return(p, "get_current_user", NoUser, 0, <<>>, NoEffect,
            "unauthenticated")
  /\ UNCHANGED <<store, history>>

\* get_current_user returns a user: the handler of the route runs as it
Authenticated(p) ==
  /\ bearer[p] # NoToken
  /\ GetCurrentUser(bearer[p]) # NoUser

\* every protected route, each request authenticated by its own token
NextAuth ==
  \/ \E p \in Handlers, t \in Tokens : Arrive(p, t)
  \/ \E p \in Handlers : Unauthenticated(p)
  \/ \E p \in Handlers :
       Authenticated(p) /\ CreateInsert(p, GetCurrentUser(bearer[p]))
  \/ \E p \in Handlers : CreateNotify(p)
  \/ \E p \in Handlers, id \in EmergencyIds :
       Authenticated(p) /\ AcceptUpdate(p, GetCurrentUser(bearer[p]), id)
  \/ \E p \in Handlers, id \in EmergencyIds :
       Authenticated(p) /\ CompleteFind(p, GetCurrentUser(bearer[p]), id)
  \/ \E p \in Handlers : CompleteUpdate(p)
  \/ \E p \in Handlers : CompleteInc(p)
  \/ \E p \in Handlers : CompleteNotify(p)
  \/ \E p \in Handlers :
       Authenticated(p) /\ GetHistoryRequests(p, GetCurrentUser(bearer[p]))
  \/ \E p \in Handlers : GetHistoryResponses(p)
  \/ \E p \in Handlers :
       Authenticated(p) /\ GetInbox(p, GetCurrentUser(bearer[p]))
  \/ \E p \in Handlers :
       Authenticated(p) /\ GetNearby(p, GetCurrentUser(bearer[p]))
  \/ \E p \in Handlers, nid \in NotificationIds :
       Authenticated(p) /\ ReadNotification(p, GetCurrentUser(bearer[p]), nid)

SpecAuth == Init /\ [][NextAuth]_vars

\* ---------------------------------------------------------- registration
\* The users collection here is the sequence of the documents register_user
\* has inserted, in insertion order; it starts empty.
\* The UserCreate bodies a client may send: email is optional.
UserForms ==
  [phone_number : {Phone("A"), Phone("B")},
   email : {NoUser, Email("A"), Email("B")}]

\* find_one({"$or": [{"phone_number": ...}, {"email": ...}]}), the email
\* part only when the body has one: the documents that match
ExistingUsers(form) ==
  {i \in DOMAIN users :
     \/ users[i].phone_number = form.phone_number
     \/ form.email # NoUser /\ users[i].email = form.email}

\* the document register_user inserts
NewUser(form) ==
  [phone_number |-> form.phone_number, email |-> form.email,
   points |-> 0, helps_given |-> 0]

\* register_user: find_one, and 400 when a user matches
RegisterFind(p, form) ==
  /\ Receive(p)
  /\ IF ExistingUsers(form) # {}
       THEN Return(p, "register_find", NoUser, 0, <<form>>, NoEffect, "exists")
       ELSE Await(p, "register_insert", NoUser, 0, <<form>>, <<>>, NoEffect)
  /\ UNCHANGED <<store, history>>

\* register_user: insert_one(user_dict), and the token is returned
RegisterInsert(p) ==
  /\ pc[p] = "register_insert"
  /\ users' = Append(users, NewUser(emergency[p][1]))
  /\ Return(p, "register_insert", NoUser, 0, emergency[p], NoEffect, "success")
  /\ UNCHANGED <<emergencies, notifications, calls, history>>

InitRegister ==
  /\ users = <<>>
  /\ emergencies = <<>>
  /\ notifications = <<>>
  /\ pc = [p \in Handlers |-> "idle"]
  /\ current_user = [p \in Handlers |-> NoUser]
  /\ emergency_id = [p \in Handlers |-> 0]
  /\ emergency = [p \in Handlers |-> <<>>]
  /\ users_cursor = [p \in Handlers |-> <<>>]
  /\ effect = [p \in Handlers |-> NoEffect]
  /\ returned = NoReturn
  /\ body = <<>>
  /\ bearer = [p \in Handlers |-> NoToken]
  /\ calls = 0
  /\ accepts = <<>>
  /\ rewards = <<>>

NextRegister ==
  \/ \E p \in Handlers, form \in UserForms : RegisterFind(p, form)
  \/ \E p \in Handlers : RegisterInsert(p)

SpecRegister == InitRegister /\ [][NextRegister]_vars

\* ---------------------------------------------------- failing store calls
\* The insert_one of the async for raises (the store is unreachable, say).
\* Nothing in create_emergency catches it: the loop is left, and
\* global_exception_handler answers 500.
CreateNotifyFails(p) ==
  /\ pc[p] = "create_notify"
  /\ Return(p, "create_notify", current_user[p], emergency_id[p], <<>>,
            NoEffect, "error")
  /\ UNCHANGED <<store, calls, history>>

NextFail ==
  \/ Next
  \/ \E p \in Handlers : CreateNotifyFails(p)

SpecFail == Init /\ [][NextFail]_vars

\* ---------------------------------------------------------------- claims
\* handler p, suspended in complete_emergency, performs its next store call
CompleteActs(p) ==
  /\ pc[p] \in {"complete_update", "complete_inc", "complete_notify"}
  /\ pc'[p] # pc[p]

\* what the request of handler p has awarded so far, after the step
EffectAfter(p) == IF pc'[p] = "idle" THEN returned'.effect ELSE effect'[p]

\* the last step returned from a complete_emergency that found its emergency
Completed ==
  /\ returned.pc \in {"complete_find", "complete_update", "complete_notify"}
  /\ returned.emergency # <<>>

\* C1: on an emergency that no completion resolved while it was still
\* active, exactly one accept_emergency call reports success, whatever the
\* number of calls and however the handlers interleave: there are never two
\* successes, once a call has returned there is one, every call returns
\* success or conflict, and the stored helper_id is the _id of the winner.
C1_ExactlyOneAcceptWins ==
  /\ \A id \in DOMAIN emergencies :
       /\ accepts[id].success <= 1
       /\ accepts[id].success = 1
            => /\ accepts[id].winner \in Users
               /\ emergencies[id].helper_id = accepts[id].winner
  /\ (returned.pc = "accept_update" /\ returned.emergency_id \in DOMAIN emergencies)
       => LET id == returned.emergency_id
          IN /\ returned.response \in {"success", "conflict"}
             /\ returned.response = "success"
                  => accepts[id].winner = returned.current_user
             /\ ~ (emergencies[id].status = "resolved"
                     /\ emergencies[id].helper_id = NoUser)
                  => accepts[id].success = 1

C1_Witness ==
  \E id \in DOMAIN emergencies :
    /\ emergencies[id].status = "accepted"
    /\ accepts[id].success = 1
    /\ returned.pc = "accept_update"
    /\ returned.response = "conflict"
    /\ returned.emergency_id = id
    /\ returned.current_user # emergencies[id].helper_id

\* C2: the reward of one emergency is awarded at most once: at most 20
\* points, at most one help and at most one reward notification.
C2_RewardAtMostOnce ==
  \A id \in DOMAIN emergencies :
    /\ rewards[id].points <= 20
    /\ rewards[id].helps_given <= 1
    /\ rewards[id].reward <= 1

\* C3: a complete_emergency by the requester that finds the emergency
\* already resolved does not report success and awards nothing.
C3_CompleteResolvedRejected ==
  (/\ Completed
   /\ returned.emergency[1].status = "resolved"
   /\ returned.emergency[1].created_by = returned.current_user)
  => returned.response # "success" /\ returned.effect = NoEffect

\* C4: a complete_emergency that finds an existing emergency for a caller
\* other than its requester (its helper included) returns forbidden in the
\* step that reads it, which leaves the three collections as they were; no
\* such caller ever gets past the test.
C4_OnlyRequesterProceeds ==
  \A p \in Handlers :
    pc[p] \in {"complete_update", "complete_inc", "complete_notify"}
    => emergency[p][1].created_by = current_user[p]

C4_Step ==
  (/\ returned'.pc = "complete_find"
   /\ returned'.emergency # <<>>
   /\ returned'.emergency[1].created_by # returned'.current_user)
  => /\ returned'.response = "forbidden"
     /\ returned'.effect = NoEffect
     /\ UNCHANGED <<users, emergencies, notifications>>

C4_NonRequesterForbidden == []C4_OnlyRequesterProceeds /\ [][C4_Step]_vars

C4_Witness ==
  /\ Completed
  /\ returned.response = "forbidden"
  /\ returned.emergency[1].helper_id = returned.current_user
  /\ returned.emergency[1].created_by # returned.current_user

\* C5: a complete_emergency that read a helper_id and returned success has
\* added exactly 20 points and 1 help to that helper and appended exactly one
\* reward notification addressed to that helper; none of its steps changes
\* another user's counters.
C5_Awarded ==
  (/\ Completed
   /\ returned.response = "success"
   /\ returned.emergency[1].helper_id # NoUser)
  => returned.effect = [points |-> 20, helps_given |-> 1, reward |-> 1]

C5_Step ==
  \A p \in Handlers :
    CompleteActs(p)
    => LET h == emergency[p][1].helper_id
       IN /\ \A u \in Users : u # h => users'[u] = users[u]
          /\ h \in Users =>
               /\ users'[h].points - users[h].points
                    = EffectAfter(p).points - effect[p].points
               /\ users'[h].helps_given - users[h].helps_given
                    = EffectAfter(p).helps_given - effect[p].helps_given
          /\ \/ /\ notifications' = notifications
                /\ EffectAfter(p).reward = effect[p].reward
             \/ /\ notifications' =
                     Append(notifications,
                            [user_id |-> h, type |-> "reward", is_read |-> FALSE])
                /\ EffectAfter(p).reward = effect[p].reward + 1

C5_HelperRewarded == []C5_Awarded /\ [][C5_Step]_vars

C5_Witness ==
  /\ Completed
  /\ returned.response = "success"
  /\ returned.emergency[1].helper_id \in Users
  /\ users[returned.emergency[1].helper_id] = [points |-> 20, helps_given |-> 1]
  /\ \E i \in DOMAIN notifications :
       notifications[i] = [user_id |-> returned.emergency[1].helper_id,
                           type |-> "reward", is_read |-> FALSE]

\* C6: a complete_emergency that returned success on an emergency whose
\* helper_id was never set has awarded nothing, and each of its steps leaves
\* the users and the notifications alone and changes nothing but the status
\* of that emergency.
C6_Nothing ==
  (/\ Completed
   /\ returned.response = "success"
   /\ emergencies[returned.emergency_id].helper_id = NoUser)
  => /\ returned.effect = NoEffect
     /\ rewards[returned.emergency_id] = NoEffect

C6_Step ==
  \A p \in Handlers :
    (CompleteActs(p) /\ emergencies'[emergency_id[p]].helper_id = NoUser)
    => /\ users' = users
       /\ notifications' = notifications
       /\ emergencies' \in {emergencies,
             [emergencies EXCEPT ![emergency_id[p]].status = "resolved"]}

C6_NoHelperNoReward == []C6_Nothing /\ [][C6_Step]_vars

C6_Witness ==
  /\ Completed
  /\ returned.response = "success"
  /\ emergencies[returned.emergency_id].helper_id = NoUser
  /\ emergencies[returned.emergency_id].status = "resolved"

\* C7: the status of an emergency only moves forward: once accepted it is
\* never active again, once resolved it is never active or accepted again.
C7_StatusForward ==
  [][\A id \in DOMAIN emergencies :
       /\ emergencies[id].status = "accepted"
            => emergencies'[id].status # "active"
       /\ emergencies[id].status = "resolved"
            => emergencies'[id].status = "resolved"]_vars

C7_Witness ==
  \E id \in DOMAIN emergencies :
    /\ emergencies[id].status = "resolved"
    /\ returned.pc = "accept_update"
    /\ returned.response = "conflict"
    /\ returned.emergency_id = id

\* C8: complete_emergency writes status resolved only on an emergency whose
\* status is accepted; no emergency passes from active to resolved.
C8_CompleteOnlyAccepted ==
  [][/\ \A p \in Handlers :
          (pc[p] = "complete_update" /\ CompleteActs(p))
          => emergencies[emergency_id[p]].status = "accepted"
     /\ \A id \in DOMAIN emergencies :
          emergencies[id].status = "active"
          => emergencies'[id].status # "resolved"]_vars

\* C9: helper_id is set if and only if the status is accepted or resolved.
C9_HelperIffAccepted ==
  \A id \in DOMAIN emergencies :
    emergencies[id].helper_id # NoUser
    <=> emergencies[id].status \in {"accepted", "resolved"}

\* C10: once helper_id and helper_name of an emergency are set, no step
\* changes or clears them.
C10_HelperFixed ==
  [][\A id \in DOMAIN emergencies :
       emergencies[id].helper_id # NoUser
       => /\ emergencies'[id].helper_id = emergencies[id].helper_id
          /\ emergencies'[id].helper_name = emergencies[id].helper_name]_vars

C10_Witness ==
  \E id \in DOMAIN emergencies :
    /\ emergencies[id].helper_id \in Users
    /\ emergencies[id].helper_name = FullName(emergencies[id].helper_id)
    /\ returned.pc = "accept_update"
    /\ returned.response = "conflict"
    /\ returned.emergency_id = id
    /\ returned.current_user \notin {emergencies[id].helper_id,
                                      emergencies[id].created_by}

\* C11: accept_emergency on an id that matches no emergency, or an emergency
\* that is accepted or resolved, answers with the one conflict response and
\* writes nothing: status, helper_id and helper_name stay as they were.  A
\* caller that lost the race and accepts again is such a call.
C11_Step ==
  LET id == returned'.emergency_id
  IN (/\ returned'.pc = "accept_update"
      /\ \/ id \notin DOMAIN emergencies
         \/ emergencies[id].status # "active")
     => /\ returned'.response = "conflict"
        /\ UNCHANGED <<store, history>>

C11_NotActiveConflict == [][C11_Step]_vars

\* a conflict for an id that no emergency has, while an accepted emergency
\* kept its helper
C11_Witness ==
  /\ returned.pc = "accept_update"
  /\ returned.response = "conflict"
  /\ returned.emergency_id \notin DOMAIN emergencies
  /\ \E id \in DOMAIN emergencies :
       /\ emergencies[id].status = "accepted"
       /\ emergencies[id].helper_id # returned.current_user

\* the alert notifications addressed to user x
AlertsTo(x) ==
  {i \in DOMAIN notifications :
     notifications[i].user_id = x /\ notifications[i].type = "alert"}

\* the handlers of create_emergency that have yet to notify user x
NotifyPending(x) ==
  {p \in Handlers :
     /\ pc[p] = "create_notify"
     /\ \E i \in DOMAIN users_cursor[p] : users_cursor[p][i] = x}

\* C12: create_emergency inserts one emergency, in status active and with no
\* helper, and appends one unread alert notification for each other user and
\* none for the requester: user x holds one alert for each emergency
\* another user created, those whose fan-out has yet to reach x apart.
C12_Alerts ==
  /\ \A x \in Users :
       Cardinality(AlertsTo(x)) + Cardinality(NotifyPending(x))
         = Cardinality({id \in DOMAIN emergencies :
                          emergencies[id].created_by # x})
  /\ \A i \in DOMAIN notifications :
       notifications[i].type = "alert" => ~ notifications[i].is_read

C12_Step ==
  /\ Len(emergencies') # Len(emergencies)
       => \E u \in Users :
            /\ emergencies' = Append(emergencies, NewEmergency(u))
            /\ notifications' = notifications
  /\ returned'.pc \in {"create_insert", "create_notify"}
       => /\ returned'.response = "success"
          /\ returned'.emergency_id \in DOMAIN emergencies'
          /\ emergencies'[returned'.emergency_id].created_by
               = returned'.current_user
          /\ \A p \in Handlers :
               pc'[p] = "create_notify"
                 => emergency_id'[p] # returned'.emergency_id

C12_CreateFanOut == []C12_Alerts /\ [][C12_Step]_vars

\* two create_emergency requests have returned; every user holds the alerts
\* of the emergencies of the others, and so none of an own one
C12_Witness ==
  /\ returned.pc = "create_notify"
  /\ \A p \in Handlers : pc[p] = "idle"
  /\ Len(emergencies) = 2
  /\ Len(notifications) = 2 * (Len(UserOrder) - 1)
  /\ \A x \in Users :
       Cardinality(AlertsTo(x))
         = Cardinality({id \in DOMAIN emergencies :
                          emergencies[id].created_by # x})

\* C13: when the insert_one of one notification fails, create_emergency
\* goes on: the remaining users of the cursor are still notified, and the
\* request answers success with the id of the new emergency.
C13_Step ==
  \A p \in Handlers :
    (/\ pc[p] = "create_notify"
     /\ pc'[p] # pc[p] \/ users_cursor'[p] # users_cursor[p]
     /\ notifications' = notifications)
    => IF Tail(users_cursor[p]) = <<>>
         THEN /\ returned'.pc = "create_notify"
              /\ returned'.response = "success"
              /\ returned'.emergency_id = emergency_id[p]
         ELSE /\ pc'[p] = "create_notify"
              /\ users_cursor'[p] = Tail(users_cursor[p])

C13_FailureSwallowed == [][C13_Step]_vars

\* handler p returns from get_history, and what its first find read is still
\* what its user has requested: no create_emergency of that user came between
\* its two finds
HistoryReturns(p) ==
  /\ pc[p] = "history_responses"
  /\ pc'[p] = "idle"
  /\ {emergency[p][k].id : k \in DOMAIN emergency[p]}
       = {id \in DOMAIN emergencies :
            emergencies[id].created_by = current_user[p]}

\* C14: get_history of a user returns one entry, and no more, for every
\* emergency the user created or is the helper of, the entries in
\* non-increasing order of creation time.
C14_Step ==
  \A p \in Handlers :
    HistoryReturns(p)
    => /\ \A id \in DOMAIN emergencies :
            (\/ emergencies[id].created_by = current_user[p]
             \/ emergencies[id].helper_id = current_user[p])
            => Cardinality({k \in DOMAIN body' : body'[k].id = id}) = 1
       /\ \A j, k \in DOMAIN body' : j < k => body'[j].date >= body'[k].date

C14_HistoryComplete == [][C14_Step]_vars

\* C15: in get_history of a user, the entry of type responded of an
\* emergency the user helped reports 20 points when the emergency is
\* resolved and 0 when it is not; an entry of type requested reports 0.
C15_Step ==
  \A p \in Handlers :
    HistoryReturns(p)
    => /\ \A id \in DOMAIN emergencies :
            emergencies[id].helper_id = current_user[p]
            => \E k \in DOMAIN body' :
                 /\ body'[k].id = id
                 /\ body'[k].type = "responded"
                 /\ body'[k].points
                      = IF emergencies[id].status = "resolved" THEN 20 ELSE 0
       /\ \A k \in DOMAIN body' :
            body'[k].type = "requested" => body'[k].points = 0

C16_Step ==
  LET nid == returned'.emergency_id
      u == returned'.current_user
  IN returned'.pc = "read_notification"
     => /\ returned'.response = "success"
        /\ UNCHANGED <<users, emergencies>>
        /\ notifications' =
             IF nid \in DOMAIN notifications /\ notifications[nid].user_id = u
               THEN [notifications EXCEPT ![nid].is_read = TRUE]
               ELSE notifications

C16_ReadOnlyOwn == [][C16_Step]_vars

\* a read of a notification of another user has left it unread, after a
\* read of an own notification has marked that one
C16_Witness ==
  /\ returned.pc = "read_notification"
  /\ returned.response = "success"
  /\ returned.emergency_id \in DOMAIN notifications
  /\ notifications[returned.emergency_id].user_id # returned.current_user
  /\ ~ notifications[returned.emergency_id].is_read
  /\ \E i \in DOMAIN notifications : notifications[i].is_read

\* the notifications addressed to user u
NotificationsOf(u) ==
  {i \in DOMAIN notifications : notifications[i].user_id = u}

\* C17: get_inbox returns notifications addressed to the caller only, each
\* once and with its read state, newest first, and no more than 50 of them;
\* when the caller has more, the ones left out are older than every one
\* returned.
C17_InboxNewestFirst ==
  returned.pc = "get_inbox"
  => LET mine == NotificationsOf(returned.current_user)
         shown == {body[k].id : k \in DOMAIN body}
     IN /\ shown \subseteq mine
        /\ \A k \in DOMAIN body :
             /\ body[k].is_read = notifications[body[k].id].is_read
             /\ body[k].type = notifications[body[k].id].type
        /\ \A j, k \in DOMAIN body :
             j < k => CreatedAt(body[j].id) > CreatedAt(body[k].id)
        /\ Len(body) <= 50
        /\ Len(body) = Min(50, Cardinality(mine))
        /\ \A i \in mine \ shown, k \in DOMAIN body :
             CreatedAt(i) < CreatedAt(body[k].id)

\* an inbox cut at the limit: the caller has more notifications than are
\* returned, and one of those returned has been read
C17_Witness ==
  /\ returned.pc = "get_inbox"
  /\ Len(body) = 50
  /\ Cardinality(NotificationsOf(returned.current_user)) > 50
  /\ \E k \in DOMAIN body : body[k].is_read

\* C18: get_nearby_emergencies returns the emergencies whose status is
\* active when it is called, all of them and each once, and no emergency
\* that is accepted or resolved.
C18_NearbyExactlyActive ==
  returned.pc = "get_nearby"
  => /\ {body[k].id : k \in DOMAIN body}
          = {id \in DOMAIN emergencies : emergencies[id].status = "active"}
     /\ \A j, k \in DOMAIN body : body[j].id = body[k].id => j = k

\* the token is a live access token of a user of the collection
Resolves(t) ==
  /\ t.sig = "valid"
  /\ t.type = "access"
  /\ \E u \in Users : t.sub = Phone(u) \/ t.sub = Email(u)

\* C19: a request to a protected route whose token is missing, forged,
\* expired, not an access token, without subject or of an unknown user is
\* answered 401 by get_current_user, and no collection is written; a
\* handler only ever runs as a user of the collection.
C19_Step ==
  \A p \in Handlers :
    (bearer[p] # NoToken /\ bearer'[p] = NoToken /\ ~ Resolves(bearer[p]))
    => /\ returned'.pc = "get_current_user"
       /\ returned'.response = "unauthenticated"
       /\ pc'[p] = "idle"
       /\ UNCHANGED <<store, history>>

C19_AsUser ==
  /\ \A p \in Handlers : pc[p] # "idle" => current_user[p] \in Users
  /\ returned.pc \notin {"idle", "get_current_user"}
       => returned.current_user \in Users

C19_Unauthenticated == []C19_AsUser /\ [][C19_Step]_vars

\* a request is turned away while a handler is in flight on a store that
\* holds an emergency
C19_Witness ==
  /\ returned.pc = "get_current_user"
  /\ returned.response = "unauthenticated"
  /\ emergencies # <<>>
  /\ \E p \in Handlers : pc[p] # "idle"

\* C20: points and helps_given of a user never decrease, and they change
\* only in the reward step of a complete_emergency on an emergency whose
\* helper is that user; every step of create_emergency, accept_emergency,
\* get_nearby_emergencies, get_inbox, read_notification and get_history
\* leaves them as they are.
C20_Step ==
  \A u \in Users :
    /\ users'[u].points >= users[u].points
    /\ users'[u].helps_given >= users[u].helps_given
    /\ users'[u] # users[u]
         => \E p \in Handlers :
              /\ pc[p] = "complete_inc"
              /\ pc'[p] = "complete_notify"
              /\ emergencies[emergency_id[p]].helper_id = u
              /\ \A q \in Handlers \ {p} : pc'[q] = pc[q]

C20_PointsOnlyByReward == [][C20_Step]_vars

\* a helper has been rewarded, and a later read_notification has left the
\* counters as complete_emergency set them
C20_Witness ==
  /\ returned.pc = "read_notification"
  /\ \E u \in Users : users[u].points = 20 /\ users[u].helps_given = 1
  /\ \E u \in Users : users[u].points = 0 /\ users[u].helps_given = 0

\* no handler is suspended at an await
Quiescent == \A p \in Handlers : pc[p] = "idle"

\* C21: once every handler has returned, the helper of a resolved emergency
\* has been rewarded on its account: 20 points, one help and one reward
\* notification at least.  An accept_emergency that succeeds between the
\* find_one and the update_one of complete_emergency is the case in point.
C21_ResolvedHelperRewarded ==
  Quiescent
  => \A id \in DOMAIN emergencies :
       (emergencies[id].status = "resolved" /\ emergencies[id].helper_id # NoUser)
       => /\ rewards[id].points >= 20
          /\ rewards[id].helps_given >= 1
          /\ rewards[id].reward >= 1

\* C22: points of every user is 20 times helps_given of that user.
C22_PointsTwentyPerHelp ==
  \A u \in Users : users[u].points = 20 * users[u].helps_given

\* a user rewarded twice and a user never rewarded
C22_Witness ==
  /\ \E u \in Users : users[u].helps_given = 2 /\ users[u].points = 40
  /\ \E u \in Users : users[u].helps_given = 0 /\ users[u].points = 0

\* the reward notifications addressed to user u
RewardsTo(u) ==
  {i \in DOMAIN notifications :
     notifications[i].user_id = u /\ notifications[i].type = "reward"}

\* C23: while no complete_emergency is in flight, every user holds as many
\* reward notifications as helps_given counts.
C23_RewardNotificationPerHelp ==
  (\A p \in Handlers :
     pc[p] \notin {"complete_update", "complete_inc", "complete_notify"})
  => \A u \in Users : Cardinality(RewardsTo(u)) = users[u].helps_given

\* a helper rewarded once holds one reward notification, while a
\* create_emergency is still in its fan-out
C23_Witness ==
  /\ \E u \in Users :
       users[u].helps_given = 1 /\ Cardinality(RewardsTo(u)) = 1
  /\ \E p \in Handlers : pc[p] = "create_notify"
  /\ \A p \in Handlers :
       pc[p] \notin {"complete_update", "complete_inc", "complete_notify"}

\* C24: the helper of an emergency is never the user who created it.
C24_HelperNotRequester ==
  \A id \in DOMAIN emergencies :
    emergencies[id].helper_id # emergencies[id].created_by

\* C25: no two documents of the users collection have the same phone
\* number, or the same email: of the register_user requests that name one
\* phone number, one at most inserts a user.
C25_UniqueUsers ==
  \A i, j \in DOMAIN users :
    i # j => /\ users[i].phone_number # users[j].phone_number
             /\ users[i].email = NoUser \/ users[i].email # users[j].email
====
